---------------------------- MODULE Spec2Model ----------------------------
(***************************************************************************)
(* PageRank on Thrill: examples/page_rank/page_rank.hpp (the three         *)
(* algorithms PageRank, PageRankJoinSelf, PageRankJoin) and                *)
(* examples/page_rank/page_rank_run.cpp (the line parser and the four run  *)
(* functions that main dispatches to).                                     *)
(*                                                                         *)
(* A DIA is modelled as the sequence of its records.  Rank (double) is     *)
(* modelled by exact rationals <<numerator, denominator>> in lowest terms. *)
(* The Thrill operators themselves (Zip, ReduceToIndex, ReducePair,        *)
(* InnerJoin, the consume counters) are library code outside the two       *)
(* source files; they are modelled from their documented contracts.        *)
(***************************************************************************)
EXTENDS Integers, Sequences, FiniteSets, Bags, TLC

VARIABLES
    run,                  \* which function main() dispatched to
    pc,                   \* position inside the run
    input,                \* DIA<PagePageLink>: the parsed edge lines
    num_pages,
    number_edges,         \* value read from number_edges_future / Sum
    links,                \* the adjacency DIA
    ranks,                \* the current rank DIA
    outs_rank,            \* DIA<OutgoingLinksRank> of the running iteration
    contribs,             \* contribution records of the running iteration
    iter,
    iterations,
    output,               \* the lines handed to WriteLines
    consume_counter,      \* per DIA node: reads left before it is freed
    error,                \* "none" or the fatal error that ended the run
    num_workers,
    links_place,          \* worker holding each record of links
    ranks_place,          \* worker holding each record of ranks
    UseLocationDetection, \* template parameter of the join algorithms
    line,                 \* a text line given to PageRankLineParser
    parsed,               \* what PageRankLineParser made of it
    worker,               \* per worker: where it is in the run function
    logs                  \* number of LOG1 / std::cout lines written

vars == <<run, pc, input, num_pages, number_edges, links, ranks, outs_rank,
          contribs, iter, iterations, output, consume_counter, error,
          num_workers, links_place, ranks_place, UseLocationDetection,
          line, parsed, worker, logs>>

-----------------------------------------------------------------------------
(* Bounds of the model *)

MaxPages == 3

MaxEdges == 2

MaxIter == 2

MaxWorkers == 2

MaxLineLen == 4

\* pages of the adjacency DIAs the algorithms are called with directly
MaxCallPages == 2

WordBits == 4

-----------------------------------------------------------------------------
(* Exact rational arithmetic standing in for double *)

RECURSIVE GCD(_, _)
GCD(a, b) == IF b = 0 THEN a ELSE GCD(b, a % b)

RNorm(n, d) == LET g == GCD(n, d) IN <<n \div g, d \div g>>

RZero == <<0, 1>>

ROne == <<1, 1>>

RAdd(a, b) ==
    LET g == GCD(a[2], b[2])
        l == (a[2] \div g) * b[2]
    IN  RNorm(a[1] * (l \div a[2]) + b[1] * (l \div b[2]), l)

RSub(a, b) == RAdd(a, <<0 - b[1], b[2]>>)

RMul(a, b) ==
    LET x == RNorm(a[1], b[2])
        y == RNorm(b[1], a[2])
    IN  <<x[1] * y[1], x[2] * y[2]>>

RDivInt(a, k) == LET x == RNorm(a[1], k) IN <<x[1], a[2] * x[2]>>

RECURSIVE RSum(_)
RSum(s) == IF s = <<>> THEN RZero ELSE RAdd(Head(s), RSum(Tail(s)))

RFloor(a) == a[1] \div a[2]

-----------------------------------------------------------------------------
(* page_rank.hpp: constants and record types *)

dampening == <<17, 20>>

PagePageLink(s, t) == [src |-> s, tgt |-> t]

PageRankPair(p, r) == [page |-> p, rank |-> r]


\* std::pair values: LinkedPage <<page, targets>>, RankedPage and
\* PageRankStdPair <<page, rank>>, OutgoingLinksRank <<targets, rank>>
First(p) == p[1]

Second(p) == p[2]

-----------------------------------------------------------------------------
(* Sequence helpers *)

\* the concatenation of a sequence of sequences
RECURSIVE Flatten(_)
Flatten(ss) ==
    IF ss = <<>> THEN <<>> ELSE Head(ss) \o Flatten(Tail(ss))

\* the first, and the second, components of a sequence of pairs
Firsts(s) == [i \in 1..Len(s) |-> First(s[i])]

Seconds(s) == [i \in 1..Len(s) |-> Second(s[i])]

Range(s) == {s[i] : i \in 1..Len(s)}

SetMax(S) ==
    IF S = {} THEN 0
    ELSE LET x == CHOOSE y \in S : \A z \in S : z <= y IN x

\* the elements of a finite set of naturals in ascending order
RECURSIVE Ascending(_)
Ascending(S) ==
    IF S = {} THEN <<>>
    ELSE LET m == CHOOSE y \in S : \A z \in S : y <= z
         IN  <<m>> \o Ascending(S \ {m})

\* the records of s whose key is k, in their order; keys[i] is the key of s[i]
SelectKey(s, keys, k) ==
    LET idx == Ascending({i \in 1..Len(s) : keys[i] = k})
    IN  [j \in 1..Len(idx) |-> s[idx[j]]]

BagOf(s) == [x \in Range(s) |-> Cardinality({i \in 1..Len(s) : s[i] = x})]

-----------------------------------------------------------------------------
(* Thrill operators as used by the PageRank code.  The function arguments of
   an operator are applied by the caller: an operator takes the keys its key
   function gives (keys[i] for record s[i]) and returns the records, pairs or
   groups that the caller's zip, join, group or reduce function is applied to. *)

\* Generate(ctx, size, f): the indexes 0, ..., size - 1 that f is called with
Generate(size) == [i \in 1..size |-> i - 1]

\* a.Zip(b, f): the two DIAs have equal size; f is called with <<a[i], b[i]>>
Zip(a, b) == [i \in 1..Len(a) |-> <<a[i], b[i]>>]

\* Max() of a DIA of size_t, 0 for an empty DIA
Max(s) == SetMax(Range(s))

\* Sum() of a DIA of size_t
RECURSIVE Sum(_)
Sum(s) == IF s = <<>> THEN 0 ELSE Head(s) + Sum(Tail(s))

\* GroupToIndex(key, group, size): slot i is group called with the records of
\* key i, in arrival order (with none, where the key has no record)
GroupToIndex(s, keys, size) == [i \in 1..size |-> SelectKey(s, keys, i - 1)]

\* GroupByKey(key, group): for each key k that occurs, one record, group
\* called with k and the records of key k
GroupByKey(s, keys) ==
    LET ks == Ascending(Range(keys))
    IN  [j \in 1..Len(ks) |-> <<ks[j], SelectKey(s, keys, ks[j])>>]

\* ReduceToIndex(key, reduce, size): slot i is the fold by reduce of the
\* records of key i, which is the neutral record alone where there is none
ReduceToIndex(s, keys, neutral, size) ==
    [i \in 1..size |->
        LET at == SelectKey(s, keys, i - 1)
        IN  IF at = <<>> THEN <<neutral>> ELSE at]

\* ReducePair(reduce) on <<key, value>> pairs: one pair per key that occurs,
\* its value the fold by reduce of that key's values; a key with no record
\* has no pair
ReducePair(s) ==
    LET ks == Ascending(Range(Firsts(s)))
    IN  [j \in 1..Len(ks) |-> <<ks[j], Seconds(SelectKey(s, Firsts(s), ks[j]))>>]

-----------------------------------------------------------------------------
(* Partitioning of records over workers, and InnerJoin *)

\* worker of slot idx of a DIA of the given size split into equal ranges
\* (Generate, ReduceToIndex, GroupToIndex)
RangeWorker(idx, size, workers) == (idx * workers) \div size

\* worker of a key under hash partitioning (GroupByKey, ReducePair and the
\* shuffle of InnerJoin); std::hash of a size_t is the value itself
HashWorker(key, workers) == key % workers

\* the records of s held by worker w
LocalPart(s, place, w) == SelectKey(s, place, w)

\* the join of two local parts: every pair <<x, y>> with equal keys, in
\* product order
LocalJoin(l, lkeys, r, rkeys) ==
    Flatten([i \in 1..Len(l) |->
                LET m == SelectKey(r, rkeys, lkeys[i])
                IN  [j \in 1..Len(m) |-> <<l[i], m[j]>>]])

\* location detection that takes the operands for co-partitioned unchecked
CoPartitionedUnchecked(lkeys, lplace, rkeys, rplace) == TRUE

\* location detection finds the operands co-partitioned when all records that
\* share a key, on either side, are on the same worker; lkeys and rkeys are
\* the keys of the records of the two operands
CoPartitioned(lkeys, lplace, rkeys, rplace) ==
    /\ \A i, j \in 1..Len(lkeys) : lkeys[i] = lkeys[j] => lplace[i] = lplace[j]
    /\ \A i, j \in 1..Len(rkeys) : rkeys[i] = rkeys[j] => rplace[i] = rplace[j]
    /\ \A i \in 1..Len(lkeys) : \A j \in 1..Len(rkeys) :
           lkeys[i] = rkeys[j] => lplace[i] = rplace[j]

\* the join executed worker by worker under the given placement
JoinPerWorker(l, lkeys, lplace, r, rkeys, rplace, workers) ==
    Flatten([w \in 1..workers |->
                LocalJoin(LocalPart(l, lplace, w - 1),
                          LocalPart(lkeys, lplace, w - 1),
                          LocalPart(r, rplace, w - 1),
                          LocalPart(rkeys, rplace, w - 1))])

\* InnerJoin(LocationDetectionFlag<flag>, l, r, lkey, rkey, join): the pairs
\* join is called with; the local join where detection is on and finds the
\* operands co-partitioned, else the join after both sides were repartitioned
\* by hash(key) mod workers
InnerJoin(flag, l, lkeys, lplace, r, rkeys, rplace, workers) ==
    IF flag /\ CoPartitioned(lkeys, lplace, rkeys, rplace)
    THEN JoinPerWorker(l, lkeys, lplace, r, rkeys, rplace, workers)
    ELSE JoinPerWorker(
             l, lkeys, [i \in 1..Len(l) |-> HashWorker(lkeys[i], workers)],
             r, rkeys, [i \in 1..Len(r) |-> HashWorker(rkeys[i], workers)],
             workers)

-----------------------------------------------------------------------------
(* Consumption of DIA nodes (ctx.enable_consume()) *)

\* consume_counter value of a node marked KeepForever()
NeverConsume == -1

\* Keep(): one more read before the node is freed
Keep(cc, node) ==
    IF cc[node] = NeverConsume THEN cc ELSE [cc EXCEPT ![node] = @ + 1]

KeepForever(cc, node) == [cc EXCEPT ![node] = NeverConsume]

\* a child operator reads the node: the node is freed with its last read
Consume(cc, node) ==
    IF cc[node] = NeverConsume \/ cc[node] = 0 THEN cc
    ELSE [cc EXCEPT ![node] = @ - 1]

\* reading a node that was freed fails with UseAfterConsume
Freed(cc, node) == cc[node] = 0


-----------------------------------------------------------------------------
(* page_rank.hpp: PageRank (Zip + ReduceToIndex) *)

\* initialize all ranks to 1.0 / n
InitRanks(n) == [i \in 1..n |-> RDivInt(ROne, n)]

\* the Zip lambda: OutgoingLinksRank(ol, r)
ZipOutsRank(l, r) == Zip(l, r)

\* the FlatMap lambda: rank / outgoing.size for each linked page
EmitContribs(p) ==
    IF Len(First(p)) = 0 THEN <<>>
    ELSE LET rank_contrib == RDivInt(Second(p), Len(First(p)))
         IN  [i \in 1..Len(First(p)) |-> PageRankPair(First(p)[i], rank_contrib)]

\* contribs = outs_rank.FlatMap(...)
FlatMapContribs(o) == Flatten([i \in 1..Len(o) |-> EmitContribs(o[i])])

\* the dampening factor applied to the floor instead of the incoming total
DampenSwapped(rank, n) ==
    RAdd(RMul(RSub(ROne, dampening), rank), RDivInt(dampening, n))

\* the Map lambda after ReduceToIndex
Dampen(rank, n) ==
    RAdd(RMul(dampening, rank), RDivInt(RSub(ROne, dampening), n))

\* the ReduceToIndex reduce lambda folded along the records of one page:
\* PageRankPair { p1.page, p1.rank + p2.rank }
RECURSIVE AddPageRankPairs(_)
AddPageRankPairs(at) ==
    IF Len(at) = 1 THEN at[1]
    ELSE LET p1 == AddPageRankPairs(SubSeq(at, 1, Len(at) - 1))
             p2 == at[Len(at)]
         IN  PageRankPair(p1.page, RAdd(p1.rank, p2.rank))

\* a reduce function that keeps the first contribution instead of adding
ReduceRanksKeepFirst(c, n) ==
    LET keys == [i \in 1..Len(c) |-> c[i].page]
        at == ReduceToIndex(c, keys, PageRankPair(0, RZero), n)
    IN  [i \in 1..n |-> Dampen(at[i][1].rank, n)]

ReduceRanks(c, n) ==
    LET keys == [i \in 1..Len(c) |-> c[i].page]
        at == ReduceToIndex(c, keys, PageRankPair(0, RZero), n)
    IN  [i \in 1..n |-> Dampen(AddPageRankPairs(at[i]).rank, n)]

RECURSIVE PageRank(_, _, _)
PageRank(l, n, its) ==
    IF its = 0 THEN InitRanks(n)
    ELSE ReduceRanks(
             FlatMapContribs(ZipOutsRank(l, PageRank(l, n, its - 1))), n)

-----------------------------------------------------------------------------
(* page_rank.hpp: PageRankJoin and PageRankJoinSelf (InnerJoin + ReducePair) *)

\* initialize all ranks to 1.0 / n: (url, rank)
JoinInitRanks(n) ==
    [i \in 1..n |-> LET idx == Generate(n)[i] IN <<idx, RDivInt(ROne, n)>>]

\* PageRankJoinSelf: one rank record Rank(1.0) per record of links
JoinSelfInitRanks(l) == [i \in 1..Len(l) |-> <<First(l[i]), ROne>>]

\* InnerJoin keyed by lp.first and rp.first, its join lambda
\* std::make_pair(lp.second, rp.second)
JoinOutsRank(flag, l, lplace, r, rplace, workers) ==
    LET joined == InnerJoin(flag, l, Firsts(l), lplace, r, Firsts(r), rplace,
                            workers)
    IN  [i \in 1..Len(joined) |->
            <<Second(joined[i][1]), Second(joined[i][2])>>]

JoinEmitContribs(p) ==
    IF Len(First(p)) > 0
    THEN LET rank_contrib == RDivInt(Second(p), Len(First(p)))
         IN  [i \in 1..Len(First(p)) |-> <<First(p)[i], rank_contrib>>]
    ELSE <<>>

\* contribs = outs_rank.FlatMap(...)
JoinFlatMapContribs(o) == Flatten([i \in 1..Len(o) |-> JoinEmitContribs(o[i])])

JoinDampen(rank, n) ==
    RAdd(RMul(dampening, rank), RDivInt(RSub(ROne, dampening), n))

\* ReducePair with the reduce lambda p1 + p2, then the Map lambda
JoinReduceRanks(c, n) ==
    LET at == ReducePair(c)
    IN  [i \in 1..Len(at) |->
            <<First(at[i]), JoinDampen(RSum(Second(at[i])), n)>>]

JoinSelfDampen(rank) == RAdd(RMul(dampening, rank), RSub(ROne, dampening))

JoinSelfReduceRanks(c) ==
    LET at == ReducePair(c)
    IN  [i \in 1..Len(at) |->
            <<First(at[i]), JoinSelfDampen(RSum(Second(at[i])))>>]

-----------------------------------------------------------------------------
(* page_rank_run.cpp: PageRankLineParser *)

\* unsigned long is WordBits wide
ULONG_MAX == 2 ^ WordBits - 1

Digits == <<"0", "1", "2", "3", "4", "5", "6", "7", "8", "9">>

IsDigit(c) == \E i \in 1..10 : Digits[i] = c

DigitValue(c) == (CHOOSE i \in 1..10 : Digits[i] = c) - 1

\* isspace among the characters of the model
IsSpace(c) == c \in {" ", "\t"}

\* the terminating zero of a C string
NUL == "NUL"

\* s[i] of the C string (1-based), the terminator past its end
CharAt(s, i) == IF i <= Len(s) THEN s[i] ELSE NUL

RECURSIVE SkipSpace(_, _)
SkipSpace(s, i) == IF IsSpace(CharAt(s, i)) THEN SkipSpace(s, i + 1) ELSE i

RECURSIVE SkipDigits(_, _)
SkipDigits(s, i) == IF IsDigit(CharAt(s, i)) THEN SkipDigits(s, i + 1) ELSE i

\* the value of the digits s[i..j-1], ULONG_MAX + 1 once it leaves the range
RECURSIVE DigitsValue(_, _, _, _)
DigitsValue(s, i, j, acc) ==
    IF i >= j THEN acc
    ELSE LET v == acc * 10 + DigitValue(s[i])
         IN  DigitsValue(s, i + 1, j, IF v > ULONG_MAX THEN ULONG_MAX + 1 ELSE v)

\* std::strtoul(s + pos, &endptr, 10): leading white space, an optional sign,
\* decimal digits.  Without digits nothing is converted: 0, endptr = s + pos.
\* A value out of range gives ULONG_MAX; a minus sign negates in unsigned long.
strtoul(s, pos) ==
    LET i == SkipSpace(s, pos)
        neg == CharAt(s, i) = "-"
        j == IF CharAt(s, i) \in {"+", "-"} THEN i + 1 ELSE i
        k == SkipDigits(s, j)
        v == DigitsValue(s, j, k, 0)
    IN  IF k = j THEN [value |-> 0, endptr |-> pos]
        ELSE IF v > ULONG_MAX THEN [value |-> ULONG_MAX, endptr |-> k]
        ELSE IF neg THEN [value |-> (ULONG_MAX + 1 - v) % (ULONG_MAX + 1),
                          endptr |-> k]
        ELSE [value |-> v, endptr |-> k]

NotParsed == [state |-> "none"]

Died == [state |-> "died"]

Parsed(e) == [state |-> "edge", edge |-> e]

\* PageRankLineParser::operator(): die_unless(*endptr == ' ') after the first
\* number, die_unless(*endptr == 0) after the second
PageRankLineParser(s) ==
    LET src == strtoul(s, 1)
    IN  IF CharAt(s, src.endptr) # " " THEN Died
        ELSE LET tgt == strtoul(s, src.endptr + 1)
             IN  IF CharAt(s, tgt.endptr) # NUL THEN Died
                 ELSE Parsed(PagePageLink(src.value, tgt.value))

-----------------------------------------------------------------------------
(* Inputs *)

Pages(n) == 0..(n - 1)

EdgeOrder(e, n) == e.src * n + e.tgt

\* the edge lists over pages below n with at most MaxEdges edges, one list
\* (the ascending one) per multiset of edges
EdgeLists(n) ==
    LET E == {PagePageLink(a, b) : a \in Pages(n), b \in Pages(n)}
    IN  {s \in UNION {[1..k -> E] : k \in 0..MaxEdges} :
            \A i \in 1..(Len(s) - 1) : EdgeOrder(s[i], n) <= EdgeOrder(s[i + 1], n)}

Runs == {"RunPageRankEdgePerLine", "RunJoinPageRankEdgePerLine",
         "RunPageRankGenerated", "RunPageRankJoinGenerated"}

FileRuns == {"RunPageRankEdgePerLine", "RunJoinPageRankEdgePerLine"}

\* nothing was handed to WriteLines
NotWritten == [written |-> FALSE, lines |-> <<>>]

\* the lines handed to WriteLines
Written(l) == [written |-> TRUE, lines |-> l]

NoNodes == [input |-> 0, links |-> 0, ranks |-> 0]

\* the workers of the run: ctx.my_rank() is in [0, num_workers)
Workers == 0..(num_workers - 1)

\* a worker at the start of the run function, before its first stage
StartWorker == [pc |-> "start", iter |-> 0, entered |-> FALSE, stages |-> 0]

\* api::Run starts the run function on every worker
InitWorkers ==
    /\ worker = [w \in Workers |-> StartWorker]
    /\ logs = 0

\* main(): api::Run dispatches on --generate and --join; each run starts with
\* ctx.enable_consume(), and the file runs with ReadLines(...).Map(parser)
Init ==
    /\ run \in Runs
    /\ num_workers \in 1..MaxWorkers
    /\ input \in IF run \in FileRuns THEN EdgeLists(MaxPages) ELSE {<<>>}
    /\ pc = "start"
    /\ num_pages = 0
    /\ number_edges = 0
    /\ links = <<>>
    /\ ranks = <<>>
    /\ outs_rank = <<>>
    /\ contribs = <<>>
    /\ iter = 0
    /\ iterations = 0
    /\ output = NotWritten
    /\ consume_counter =
           IF run \in FileRuns THEN [NoNodes EXCEPT !.input = 1] ELSE NoNodes
    /\ error = "none"
    /\ links_place = <<>>
    /\ ranks_place = <<>>
    /\ UseLocationDetection = TRUE
    /\ line = <<>>
    /\ parsed = NotParsed
    /\ InitWorkers

\* a fatal error ends the run
Abort(e) ==
    /\ error' = e
    /\ pc' = "abort"

\* a stage whose operators read the given nodes: the run dies where one of them
\* was freed, else the stage (step) takes place; frame holds the variables
\* that step assigns besides pc
Stage(cc, nodes, step, frame) ==
    IF \E nd \in nodes : Freed(cc, nd)
    THEN Abort("UseAfterConsume") /\ UNCHANGED frame
    ELSE step /\ UNCHANGED error

\* the nodes read by a stage are consumed by it
ConsumeAll(cc, nodes) ==
    [nd \in DOMAIN cc |-> IF nd \in nodes THEN Consume(cc, nd)[nd] ELSE cc[nd]]

-----------------------------------------------------------------------------
(* page_rank_run.cpp: RunPageRankEdgePerLine *)

(* Formatting of the output lines *)

\* k more decimal digits of rem / d appended to acc: <<digits, remainder>>
RECURSIVE LongDiv(_, _, _, _)
LongDiv(acc, rem, d, k) ==
    IF k = 0 THEN <<acc, rem>>
    ELSE LongDiv(acc * 10 + (rem * 10) \div d, (rem * 10) % d, d, k - 1)

\* the quotient with k decimals, rounded to nearest
Rounded(n, d, k) ==
    LET q == LongDiv(n \div d, n % d, d, k)
    IN  IF 2 * q[2] >= d THEN q[1] + 1 ELSE q[1]

\* std::to_string(double), "%f": six decimals; the value in units of 10^-6
FormatF(r) == [micro |-> Rounded(r[1], r[2], 6)]

\* the decimal exponent of a positive rational below 10
RECURSIVE Exp10(_, _)
Exp10(n, d) == IF n >= d THEN 0 ELSE Exp10(n * 10, d) - 1

RECURSIVE Pow10(_)
Pow10(k) == IF k = 0 THEN 1 ELSE 10 * Pow10(k - 1)

\* "%g": six significant digits; the value is mant * 10^(exp - 5)
FormatG(r) ==
    IF r[1] = 0 THEN [mant |-> 0, exp |-> 0]
    ELSE LET e == Exp10(r[1], r[2])
             m == Rounded(r[1] * Pow10(0 - e), r[2], 5)
         IN  IF m = 1000000 THEN [mant |-> 100000, exp |-> e + 1]
             ELSE [mant |-> m, exp |-> e]

\* an output line "<integer>: <decimal>"
Line(integer, decimal) == [id |-> integer, rank |-> decimal]

\* a.ZipWithIndex(f): f is called with <<a[i], i>>, the item first, then its
\* index
ZipWithIndex(a) == [i \in 1..Len(a) |-> <<a[i], i - 1>>]

\* conversion of a double to size_t: the fractional part is dropped
DoubleToSize(r) == RFloor(r)

\* conversion of a size_t to double
SizeToDouble(k) == <<k, 1>>

-----------------------------------------------------------------------------
(* page_rank_run.cpp: RunPageRankEdgePerLine *)

\* the key lambda p.src of the grouping operators, over a DIA of edges
Sources(e) == [i \in 1..Len(e) |-> e[i].src]

\* the group lambda: all.push_back(r.Next().tgt) while r.HasNext()
Targets(r) == [i \in 1..Len(r) |-> r[i].tgt]

\* input.Map(std::max(ppl.src, ppl.tgt))
MaxIds(e) ==
    [i \in 1..Len(e) |-> IF e[i].src >= e[i].tgt THEN e[i].src ELSE e[i].tgt]

\* input.GroupToIndex<OutgoingLinks>(p.src, all targets, num_pages)
LinksToIndex(e, n) ==
    LET g == GroupToIndex(e, Sources(e), n)
    IN  [i \in 1..n |-> Targets(g[i])]

\* input.GroupByKey<LinkedPage>(p.src, std::make_pair(pid, all targets))
LinksByKey(e) ==
    LET g == GroupByKey(e, Sources(e))
    IN  [j \in 1..Len(g) |-> <<First(g[j]), Targets(Second(g[j]))>>]

\* the ZipWithIndex lambda (const Rank& r, const PageId& p): "%zu: %g", p, r
EdgePerLineLines(r) ==
    LET z == ZipWithIndex(r)
    IN  [i \in 1..Len(z) |-> Line(Second(z[i]), FormatG(First(z[i])))]

\* num_pages = input.Keep().Map(max(src, tgt)).Max() + 1
EdgePerLine_Max ==
    /\ run = "RunPageRankEdgePerLine" /\ pc = "start"
    /\ LET cc == Keep(consume_counter, "input")
       IN  Stage(cc, {"input"},
                 /\ num_pages' =
                        (Max(MaxIds(input)) + 1) % (2 ^ WordBits)
                 /\ consume_counter' = ConsumeAll(cc, {"input"})
                 /\ pc' = "size_future",
                 <<num_pages, consume_counter>>)
    /\ UNCHANGED <<worker, logs, run, input, number_edges, links, ranks, outs_rank, contribs,
                   iter, iterations, output, num_workers, links_place,
                   ranks_place, UseLocationDetection, line, parsed>>

\* number_edges_future = input.Keep().SizeFuture()
EdgePerLine_SizeFuture ==
    /\ run = "RunPageRankEdgePerLine" /\ pc = "size_future"
    /\ LET cc == Keep(consume_counter, "input")
       IN  Stage(cc, {"input"},
                 /\ consume_counter' = ConsumeAll(cc, {"input"})
                 /\ pc' = "links",
                 <<consume_counter>>)
    /\ UNCHANGED <<worker, logs, run, input, num_pages, number_edges, links, ranks, outs_rank,
                   contribs, iter, iterations, output, num_workers, links_place,
                   ranks_place, UseLocationDetection, line, parsed>>

\* links = input.GroupToIndex<OutgoingLinks>(src, all targets, num_pages).Cache()
EdgePerLine_Links ==
    /\ run = "RunPageRankEdgePerLine" /\ pc = "links"
    /\ IF \E i \in 1..Len(input) : input[i].src >= num_pages
       THEN Abort("KeyRange") /\ UNCHANGED <<links, consume_counter>>
       ELSE Stage(consume_counter, {"input"},
                  /\ links' = LinksToIndex(input, num_pages)
                  /\ consume_counter' =
                         [ConsumeAll(consume_counter, {"input"})
                              EXCEPT !.links = 1]
                  /\ pc' = "pagerank",
                  <<links, consume_counter>>)
    /\ UNCHANGED <<worker, logs, run, input, num_pages, number_edges, ranks, outs_rank,
                   contribs, iter, iterations, output, num_workers, links_place,
                   ranks_place, UseLocationDetection, line, parsed>>

\* if (output_path.size()) ranks.ZipWithIndex("%zu: %g", p, r).WriteLines()
\* else ranks.Execute()
EdgePerLine_Output ==
    /\ run = "RunPageRankEdgePerLine" /\ pc = "output"
    /\ \E output_path \in BOOLEAN :
           IF output_path
           THEN Stage(consume_counter, {"ranks"},
                      /\ output' = Written(EdgePerLineLines(ranks))
                      /\ consume_counter' = ConsumeAll(consume_counter, {"ranks"})
                      /\ pc' = "size_read",
                      <<output, consume_counter>>)
           ELSE /\ pc' = "size_read"
                /\ UNCHANGED <<output, consume_counter, error>>
    /\ UNCHANGED <<worker, logs, run, input, num_pages, number_edges, links, ranks, outs_rank,
                   contribs, iter, iterations, num_workers, links_place,
                   ranks_place, UseLocationDetection, line, parsed>>

\* number_edges = number_edges_future()
EdgePerLine_SizeRead ==
    /\ run = "RunPageRankEdgePerLine" /\ pc = "size_read"
    /\ number_edges' = Len(input)
    /\ pc' = "done"
    /\ UNCHANGED <<worker, logs, run, input, num_pages, links, ranks, outs_rank, contribs,
                   iter, iterations, output, consume_counter, error, num_workers,
                   links_place, ranks_place, UseLocationDetection, line, parsed>>

-----------------------------------------------------------------------------
(* page_rank_run.cpp: RunPageRankGenerated *)

\* the outgoing-link lists ZipfGraphGen can generate for n pages: every target
\* is a page below n (at most MaxEdges links in all)
GeneratedLinks(n) ==
    {LinksToIndex(e, n) : e \in EdgeLists(n)}

\* the ZipWithIndex lambda (const PageId& p, const Rank& r), called with the
\* rank and then the index: std::to_string(p) + ": " + std::to_string(r)
GeneratedLines(r) ==
    LET z == ZipWithIndex(r)
    IN  [i \in 1..Len(z) |->
            LET p == DoubleToSize(First(z[i]))
                rk == SizeToDouble(Second(z[i]))
            IN  Line(p, FormatF(rk))]

\* num_pages from input_path; links = Generate(num_pages, GenerateOutgoing).Cache()
Generated_Links ==
    /\ run = "RunPageRankGenerated" /\ pc = "start"
    /\ \E n \in 1..MaxPages : \E g \in GeneratedLinks(n) :
           /\ num_pages' = n
           /\ links' = g
    /\ consume_counter' = [consume_counter EXCEPT !.links = 1]
    /\ pc' = "sum"
    /\ UNCHANGED <<worker, logs, run, input, number_edges, ranks, outs_rank, contribs, iter,
                   iterations, output, error, num_workers, links_place,
                   ranks_place, UseLocationDetection, line, parsed>>

\* number_edges = links.Keep().Map(ol.size()).Sum()
Generated_Sum ==
    /\ run = "RunPageRankGenerated" /\ pc = "sum"
    /\ LET cc == Keep(consume_counter, "links")
       IN  Stage(cc, {"links"},
                 /\ number_edges' =
                        Sum([i \in 1..Len(links) |-> Len(links[i])])
                 /\ consume_counter' = ConsumeAll(cc, {"links"})
                 /\ pc' = "pagerank",
                 <<number_edges, consume_counter>>)
    /\ UNCHANGED <<worker, logs, run, input, num_pages, links, ranks, outs_rank, contribs,
                   iter, iterations, output, num_workers, links_place,
                   ranks_place, UseLocationDetection, line, parsed>>

\* if (output_path.size())
\*     ranks.ZipWithIndex([](const PageId& p, const Rank& r) {
\*         return std::to_string(p) + ": " + std::to_string(r); }).WriteLines()
\* else ranks.Execute()
\* ZipWithIndex passes (item, index): the Rank item is converted to the PageId
\* parameter p and the index to the Rank parameter r
Generated_Output ==
    /\ run = "RunPageRankGenerated" /\ pc = "output"
    /\ \E output_path \in BOOLEAN :
           IF output_path
           THEN Stage(consume_counter, {"ranks"},
                      /\ output' = Written(GeneratedLines(ranks))
                      /\ consume_counter' = ConsumeAll(consume_counter, {"ranks"})
                      /\ pc' = "done",
                      <<output, consume_counter>>)
           ELSE /\ pc' = "done"
                /\ UNCHANGED <<output, consume_counter, error>>
    /\ UNCHANGED <<worker, logs, run, input, num_pages, number_edges, links, ranks, outs_rank,
                   contribs, iter, iterations, num_workers, links_place,
                   ranks_place, UseLocationDetection, line, parsed>>

-----------------------------------------------------------------------------
(* page_rank.hpp: PageRank, called by the two index-based runs *)

\* the callers of PageRank: the two index-based runs, or any caller that hands
\* it a kept adjacency DIA
IndexRuns == {"RunPageRankEdgePerLine", "RunPageRankGenerated", "PageRank"}

\* ranks = Generate(ctx, num_pages, 1.0 / num_pages).Collapse()
PageRank_Init ==
    /\ run \in IndexRuns /\ pc = "pagerank"
    /\ iterations' \in 0..MaxIter
    /\ ranks' = InitRanks(num_pages)
    /\ consume_counter' = [consume_counter EXCEPT !.ranks = 1]
    /\ iter' = 0
    /\ pc' = "loop"
    /\ UNCHANGED <<worker, logs, run, input, num_pages, number_edges, links, outs_rank,
                   contribs, output, error, num_workers, links_place,
                   ranks_place, UseLocationDetection, line, parsed>>

\* outs_rank = links.Zip(ranks, OutgoingLinksRank(ol, r))
PageRank_Zip ==
    /\ run \in IndexRuns /\ pc = "loop" /\ iter < iterations
    /\ Stage(consume_counter, {"links", "ranks"},
             /\ outs_rank' = ZipOutsRank(links, ranks)
             /\ consume_counter' = ConsumeAll(consume_counter, {"links", "ranks"})
             /\ pc' = "flatmap",
             <<outs_rank, consume_counter>>)
    /\ UNCHANGED <<worker, logs, run, input, num_pages, number_edges, links, ranks, contribs,
                   iter, iterations, output, num_workers, links_place,
                   ranks_place, UseLocationDetection, line, parsed>>

\* contribs = outs_rank.FlatMap<PageRankPair>(...)
PageRank_FlatMap ==
    /\ run \in IndexRuns /\ pc = "flatmap"
    /\ contribs' = FlatMapContribs(outs_rank)
    /\ pc' = "reduce"
    /\ UNCHANGED <<worker, logs, run, input, num_pages, number_edges, links, ranks, outs_rank,
                   iter, iterations, output, consume_counter, error, num_workers,
                   links_place, ranks_place, UseLocationDetection, line, parsed>>

\* ranks = contribs.ReduceToIndex(page, +, num_pages).Map(dampen).Collapse()
PageRank_Reduce ==
    /\ run \in IndexRuns /\ pc = "reduce"
    /\ IF \E i \in 1..Len(contribs) : contribs[i].page >= num_pages
       THEN Abort("KeyRange") /\ UNCHANGED <<ranks, consume_counter, iter>>
       ELSE /\ ranks' = ReduceRanks(contribs, num_pages)
            /\ consume_counter' = [consume_counter EXCEPT !.ranks = 1]
            /\ iter' = iter + 1
            /\ pc' = "loop"
            /\ UNCHANGED error
    /\ UNCHANGED <<worker, logs, run, input, num_pages, number_edges, links, outs_rank,
                   contribs, iterations, output, num_workers, links_place,
                   ranks_place, UseLocationDetection, line, parsed>>

\* return ranks
PageRank_Return ==
    /\ run \in IndexRuns /\ pc = "loop" /\ ~(iter < iterations)
    /\ pc' = IF run = "PageRank" THEN "done" ELSE "output"
    /\ UNCHANGED <<worker, logs, run, input, num_pages, number_edges, links, ranks, outs_rank,
                   contribs, iter, iterations, output, consume_counter, error,
                   num_workers, links_place, ranks_place, UseLocationDetection,
                   line, parsed>>

-----------------------------------------------------------------------------
(* page_rank_run.cpp: RunJoinPageRankEdgePerLine, RunPageRankJoinGenerated *)

\* ranks.Map("%zu: %g", rp.first, rp.second), the lines given to WriteLines
JoinLines(r) ==
    [i \in 1..Len(r) |-> Line(First(r[i]), FormatG(Second(r[i])))]

\* links = input.GroupByKey<LinkedPage>(src, (pid, all targets))
\*         .Cache().KeepForever()
JoinEdgePerLine_Links ==
    /\ run = "RunJoinPageRankEdgePerLine" /\ pc = "start"
    /\ Stage(consume_counter, {"input"},
             /\ links' = LinksByKey(input)
             /\ links_place' =
                    [i \in 1..Len(links') |->
                        HashWorker(First(links'[i]), num_workers)]
             /\ consume_counter' =
                    KeepForever([ConsumeAll(consume_counter, {"input"})
                                     EXCEPT !.links = 1], "links")
             /\ pc' = "pagerank",
             <<links, links_place, consume_counter>>)
    /\ UNCHANGED <<worker, logs, run, input, num_pages, number_edges, ranks, outs_rank,
                   contribs, iter, iterations, output, num_workers, ranks_place,
                   UseLocationDetection, line, parsed>>

\* if (output_path.size()) ranks.Map(...).WriteLines() else ranks.Execute()
JoinEdgePerLine_Output ==
    /\ run = "RunJoinPageRankEdgePerLine" /\ pc = "output"
    /\ \E output_path \in BOOLEAN :
           IF output_path
           THEN Stage(consume_counter, {"ranks"},
                      /\ output' = Written(JoinLines(ranks))
                      /\ consume_counter' = ConsumeAll(consume_counter, {"ranks"})
                      /\ pc' = "done",
                      <<output, consume_counter>>)
           ELSE /\ pc' = "done"
                /\ UNCHANGED <<output, consume_counter, error>>
    /\ UNCHANGED <<worker, logs, run, input, num_pages, number_edges, links, ranks, outs_rank,
                   contribs, iter, iterations, num_workers, links_place,
                   ranks_place, UseLocationDetection, line, parsed>>

\* num_pages from input_path;
\* links = Generate(num_pages, (index, GenerateOutgoing)).Cache().KeepForever()
\* the Generate lambda std::make_pair(index, GenerateOutgoing(rng)), g the
\* outgoing links generated per index
GeneratedLinkedPages(g) ==
    [i \in 1..Len(g) |-> LET index == Generate(Len(g))[i] IN <<index, g[index + 1]>>]

JoinGenerated_Links ==
    /\ run = "RunPageRankJoinGenerated" /\ pc = "start"
    /\ \E n \in 1..MaxPages : \E g \in GeneratedLinks(n) :
           /\ num_pages' = n
           /\ links' = GeneratedLinkedPages(g)
           /\ links_place' = [i \in 1..n |-> RangeWorker(i - 1, n, num_workers)]
    /\ consume_counter' =
           KeepForever([consume_counter EXCEPT !.links = 1], "links")
    /\ pc' = "pagerank"
    /\ UNCHANGED <<worker, logs, run, input, number_edges, ranks, outs_rank, contribs, iter,
                   iterations, output, error, num_workers, ranks_place,
                   UseLocationDetection, line, parsed>>

\* if (output_path.size()) ranks.Map(...).WriteLines() else ranks.Execute()
JoinGenerated_Output ==
    /\ run = "RunPageRankJoinGenerated" /\ pc = "output"
    /\ \E output_path \in BOOLEAN :
           IF output_path
           THEN Stage(consume_counter, {"ranks"},
                      /\ output' = Written(JoinLines(ranks))
                      /\ consume_counter' = ConsumeAll(consume_counter, {"ranks"})
                      /\ pc' = "done",
                      <<output, consume_counter>>)
           ELSE /\ pc' = "done"
                /\ UNCHANGED <<output, consume_counter, error>>
    /\ UNCHANGED <<worker, logs, run, input, num_pages, number_edges, links, ranks, outs_rank,
                   contribs, iter, iterations, num_workers, links_place,
                   ranks_place, UseLocationDetection, line, parsed>>

-----------------------------------------------------------------------------
(* page_rank.hpp: PageRankJoinSelf *)

\* the callers of PageRankJoinSelf: the file run, or any caller that hands it
\* a kept adjacency DIA
JoinSelfRuns == {"RunJoinPageRankEdgePerLine", "PageRankJoinSelf"}

\* ranks = links.Map((lp.first, Rank(1.0)))
PageRankJoinSelf_Init ==
    /\ run \in JoinSelfRuns /\ pc = "pagerank"
    /\ iterations' \in 0..MaxIter
    /\ Stage(consume_counter, {"links"},
             /\ ranks' = JoinSelfInitRanks(links)
             /\ ranks_place' = links_place
             /\ consume_counter' =
                    [ConsumeAll(consume_counter, {"links"}) EXCEPT !.ranks = 1]
             /\ iter' = 0
             /\ pc' = "loop",
             <<ranks, ranks_place, consume_counter, iter>>)
    /\ UNCHANGED <<worker, logs, run, input, num_pages, number_edges, links, outs_rank,
                   contribs, output, num_workers, links_place,
                   UseLocationDetection, line, parsed>>

\* outs_rank = InnerJoin(LocationDetectionFlag<UseLocationDetection>(),
\*                       links, ranks, lp.first, rp.first, (lp.second, rp.second))
PageRankJoinSelf_Join ==
    /\ run \in JoinSelfRuns /\ pc = "loop" /\ iter < iterations
    /\ Stage(consume_counter, {"links", "ranks"},
             /\ outs_rank' = JoinOutsRank(UseLocationDetection, links,
                                 links_place, ranks, ranks_place, num_workers)
             /\ consume_counter' = ConsumeAll(consume_counter, {"links", "ranks"})
             /\ pc' = "flatmap",
             <<outs_rank, consume_counter>>)
    /\ UNCHANGED <<worker, logs, run, input, num_pages, number_edges, links, ranks, contribs,
                   iter, iterations, output, num_workers, links_place,
                   ranks_place, UseLocationDetection, line, parsed>>

\* contribs = outs_rank.FlatMap<PageRankStdPair>(...)
PageRankJoinSelf_FlatMap ==
    /\ run \in JoinSelfRuns /\ pc = "flatmap"
    /\ contribs' = JoinFlatMapContribs(outs_rank)
    /\ pc' = "reduce"
    /\ UNCHANGED <<worker, logs, run, input, num_pages, number_edges, links, ranks, outs_rank,
                   iter, iterations, output, consume_counter, error, num_workers,
                   links_place, ranks_place, UseLocationDetection, line, parsed>>

\* ranks = contribs.ReducePair(+).Map(dampen).Collapse(); ranks.Execute()
PageRankJoinSelf_Reduce ==
    /\ run \in JoinSelfRuns /\ pc = "reduce"
    /\ ranks' = JoinSelfReduceRanks(contribs)
    /\ ranks_place' =
           [i \in 1..Len(ranks') |-> HashWorker(First(ranks'[i]), num_workers)]
    /\ consume_counter' = [consume_counter EXCEPT !.ranks = 1]
    /\ iter' = iter + 1
    /\ pc' = "loop"
    /\ UNCHANGED <<worker, logs, run, input, num_pages, number_edges, links, outs_rank,
                   contribs, iterations, output, error, num_workers, links_place,
                   UseLocationDetection, line, parsed>>

\* return ranks
PageRankJoinSelf_Return ==
    /\ run \in JoinSelfRuns /\ pc = "loop" /\ ~(iter < iterations)
    /\ pc' = IF run = "PageRankJoinSelf" THEN "done" ELSE "output"
    /\ UNCHANGED <<worker, logs, run, input, num_pages, number_edges, links, ranks, outs_rank,
                   contribs, iter, iterations, output, consume_counter, error,
                   num_workers, links_place, ranks_place, UseLocationDetection,
                   line, parsed>>

-----------------------------------------------------------------------------
(* page_rank.hpp: PageRankJoin *)

JoinRuns == {"RunPageRankJoinGenerated", "PageRankJoin"}

\* ranks = Generate(ctx, num_pages, (idx, 1.0 / num_pages)).Collapse()
PageRankJoin_Init ==
    /\ run \in JoinRuns /\ pc = "pagerank"
    /\ iterations' \in 0..MaxIter
    /\ ranks' = JoinInitRanks(num_pages)
    /\ ranks_place' =
           [i \in 1..num_pages |-> RangeWorker(i - 1, num_pages, num_workers)]
    /\ consume_counter' = [consume_counter EXCEPT !.ranks = 1]
    /\ iter' = 0
    /\ pc' = "loop"
    /\ UNCHANGED <<worker, logs, run, input, num_pages, number_edges, links, outs_rank,
                   contribs, output, error, num_workers, links_place,
                   UseLocationDetection, line, parsed>>

\* outs_rank = InnerJoin(LocationDetectionFlag<UseLocationDetection>(),
\*                       links, ranks, lp.first, rp.first, (lp.second, rp.second))
PageRankJoin_Join ==
    /\ run \in JoinRuns /\ pc = "loop" /\ iter < iterations
    /\ Stage(consume_counter, {"links", "ranks"},
             /\ outs_rank' = JoinOutsRank(UseLocationDetection, links,
                                 links_place, ranks, ranks_place, num_workers)
             /\ consume_counter' = ConsumeAll(consume_counter, {"links", "ranks"})
             /\ pc' = "flatmap",
             <<outs_rank, consume_counter>>)
    /\ UNCHANGED <<worker, logs, run, input, num_pages, number_edges, links, ranks, contribs,
                   iter, iterations, output, num_workers, links_place,
                   ranks_place, UseLocationDetection, line, parsed>>

\* contribs = outs_rank.FlatMap<PageRankStdPair>(...)
PageRankJoin_FlatMap ==
    /\ run \in JoinRuns /\ pc = "flatmap"
    /\ contribs' = JoinFlatMapContribs(outs_rank)
    /\ pc' = "reduce"
    /\ UNCHANGED <<worker, logs, run, input, num_pages, number_edges, links, ranks, outs_rank,
                   iter, iterations, output, consume_counter, error, num_workers,
                   links_place, ranks_place, UseLocationDetection, line, parsed>>

\* ranks = contribs.ReducePair(+).Map(dampen).Collapse(); ranks.Execute()
PageRankJoin_Reduce ==
    /\ run \in JoinRuns /\ pc = "reduce"
    /\ ranks' = JoinReduceRanks(contribs, num_pages)
    /\ ranks_place' =
           [i \in 1..Len(ranks') |-> HashWorker(First(ranks'[i]), num_workers)]
    /\ consume_counter' = [consume_counter EXCEPT !.ranks = 1]
    /\ iter' = iter + 1
    /\ pc' = "loop"
    /\ UNCHANGED <<worker, logs, run, input, num_pages, number_edges, links, outs_rank,
                   contribs, iterations, output, error, num_workers, links_place,
                   UseLocationDetection, line, parsed>>

\* return ranks
PageRankJoin_Return ==
    /\ run \in JoinRuns /\ pc = "loop" /\ ~(iter < iterations)
    /\ pc' = IF run = "PageRankJoin" THEN "done" ELSE "output"
    /\ UNCHANGED <<worker, logs, run, input, num_pages, number_edges, links, ranks, outs_rank,
                   contribs, iter, iterations, output, consume_counter, error,
                   num_workers, links_place, ranks_place, UseLocationDetection,
                   line, parsed>>

-----------------------------------------------------------------------------
(* Specifications *)

NextPageRank ==
    \/ PageRank_Init
    \/ PageRank_Zip
    \/ PageRank_FlatMap
    \/ PageRank_Reduce
    \/ PageRank_Return

NextEdgePerLine ==
    \/ EdgePerLine_Max
    \/ EdgePerLine_SizeFuture
    \/ EdgePerLine_Links
    \/ NextPageRank
    \/ EdgePerLine_Output
    \/ EdgePerLine_SizeRead

NextJoin ==
    \/ PageRankJoinSelf_Init
    \/ PageRankJoinSelf_Join
    \/ PageRankJoinSelf_FlatMap
    \/ PageRankJoinSelf_Reduce
    \/ PageRankJoinSelf_Return
    \/ PageRankJoin_Init
    \/ PageRankJoin_Join
    \/ PageRankJoin_FlatMap
    \/ PageRankJoin_Reduce
    \/ PageRankJoin_Return

Next ==
    \/ NextEdgePerLine
    \/ Generated_Links
    \/ Generated_Sum
    \/ Generated_Output
    \/ JoinEdgePerLine_Links
    \/ JoinEdgePerLine_Output
    \/ JoinGenerated_Links
    \/ JoinGenerated_Output
    \/ NextJoin

\* the four runs of main()
Spec == Init /\ [][Next]_vars

-----------------------------------------------------------------------------
(* The workers of a run.  api::Run starts the run function on every worker;
   every worker executes the same code, and a stage of the run (a DIA
   operation or action) takes place when all workers have entered it. *)

run_vars == <<run, pc, input, num_pages, number_edges, links, ranks, outs_rank,
              contribs, iter, iterations, output, consume_counter, error,
              num_workers, links_place, ranks_place, UseLocationDetection,
              line, parsed>>

\* the statements of the run functions that are stages
StageLabels ==
    {"start", "size_future", "sum", "links", "pagerank", "loop", "flatmap",
     "reduce", "output", "size_read"}

\* the statements inside if (ctx.my_rank() == 0) { ... }
LogLabels == {"step_log", "finished_log"}

\* the number of stages of the run function before the call of the algorithm
StagesBeforePageRank ==
    CASE run = "RunPageRankEdgePerLine" -> 3
      [] run = "RunPageRankGenerated" -> 2
      [] OTHER -> 1

\* the number of stages of the run that have taken place; none counts once
\* a fatal error ended the run
StagesCompleted ==
    CASE pc = "start" -> 0
      [] pc \in {"size_future", "sum"} -> 1
      [] pc = "links" -> 2
      [] pc = "pagerank" -> StagesBeforePageRank
      [] pc = "loop" -> StagesBeforePageRank + 1 + 3 * iter
      [] pc = "flatmap" -> StagesBeforePageRank + 2 + 3 * iter
      [] pc = "reduce" -> StagesBeforePageRank + 3 + 3 * iter
      [] pc = "output" -> StagesBeforePageRank + 2 + 3 * iterations
      [] pc = "size_read" -> StagesBeforePageRank + 3 + 3 * iterations
      [] pc = "done" ->
             IF run = "RunPageRankEdgePerLine"
             THEN StagesBeforePageRank + 4 + 3 * iterations
             ELSE StagesBeforePageRank + 3 + 3 * iterations
      [] OTHER -> 0

\* the statement a worker executes after the stage it is in, by the code of
\* the run function and of the algorithm it calls
AfterStage(w) ==
    LET at == worker[w].pc
    IN  CASE at = "start" ->
                 IF run = "RunPageRankEdgePerLine" THEN "size_future"
                 ELSE IF run = "RunPageRankGenerated" THEN "sum"
                 ELSE "pagerank"
          [] at = "size_future" -> "links"
          [] at \in {"links", "sum"} -> "pagerank"
          [] at = "pagerank" -> "loop"
          [] at = "loop" ->
                 IF worker[w].iter < iterations THEN "flatmap" ELSE "output"
          [] at = "flatmap" -> "reduce"
          [] at = "reduce" -> IF run \in JoinSelfRuns THEN "step_log" ELSE "loop"
          [] at = "output" ->
                 IF run = "RunPageRankEdgePerLine" THEN "size_read"
                 ELSE "finished_log"
          [] at = "size_read" -> "finished_log"
          [] OTHER -> "done"

\* a worker reaches a stage and waits for the other workers
Worker_Enter(w) ==
    /\ w \in Workers /\ error = "none"
    /\ worker[w].pc \in StageLabels /\ ~worker[w].entered
    /\ worker' = [worker EXCEPT ![w].entered = TRUE, ![w].stages = @ + 1]
    /\ UNCHANGED <<run_vars, logs>>

\* the stage a worker entered has taken place: the worker goes on; ++iter of
\* the loop follows the reduce stage
Worker_Leave(w) ==
    /\ w \in Workers /\ error = "none"
    /\ worker[w].entered /\ StagesCompleted >= worker[w].stages
    /\ worker' = [worker EXCEPT
                      ![w].pc = AfterStage(w),
                      ![w].iter = IF worker[w].pc = "reduce"
                                     /\ run \notin JoinSelfRuns
                                  THEN @ + 1 ELSE @,
                      ![w].entered = FALSE]
    /\ UNCHANGED <<run_vars, logs>>

\* if (ctx.my_rank() == 0) { LOG1 / std::cout ... }: worker 0 writes a line,
\* the other workers skip the block
Worker_Log(w) ==
    /\ w \in Workers /\ error = "none"
    /\ worker[w].pc \in LogLabels
    /\ logs' = IF w = 0 THEN logs + 1 ELSE logs
    /\ worker' = [worker EXCEPT
                      ![w].pc = IF worker[w].pc = "step_log" THEN "loop"
                                ELSE "done",
                      ![w].iter = IF worker[w].pc = "step_log" THEN @ + 1 ELSE @]
    /\ UNCHANGED run_vars

\* every worker has entered the stage the run is at
AllEntered ==
    /\ error = "none"
    /\ \A w \in Workers :
           /\ worker[w].entered
           /\ worker[w].pc = pc /\ worker[w].iter = iter
           /\ worker[w].stages = StagesCompleted + 1

\* a stage takes place once every worker has entered it
Stage_AllWorkers == AllEntered /\ Next

\* the step that ends a stage every worker has entered: every action of Next
\* leaves the statement it is at
StageTakesPlace ==
    /\ AllEntered
    /\ pc' \in StageLabels \cup {"done", "abort"}
    /\ pc' # pc

NextWorkers ==
    \/ \E w \in 0..(MaxWorkers - 1) : Worker_Enter(w)
    \/ \E w \in 0..(MaxWorkers - 1) : Worker_Leave(w)
    \/ \E w \in 0..(MaxWorkers - 1) : Worker_Log(w)
    \/ Stage_AllWorkers

\* the four runs of main() worker by worker, under fair scheduling of the
\* workers: a worker that can go on does, and a stage that every worker has
\* entered takes place
SpecWorkers ==
    /\ Init
    /\ [][NextWorkers]_vars
    /\ WF_pc(StageTakesPlace)
    /\ \A w \in 0..(MaxWorkers - 1) :
           WF_vars(Worker_Enter(w) \/ Worker_Leave(w) \/ Worker_Log(w))

\* the adjacency DIAs the join algorithms are called with: one record per page
\* that has a record
JoinLinks(n) ==
    {LinksByKey(e) : e \in EdgeLists(n)}
    \cup {GeneratedLinkedPages(g) : g \in GeneratedLinks(n)}

\* PageRank, PageRankJoin<flag> and PageRankJoinSelf<flag> called on a kept
\* adjacency DIA; for the join algorithms with either flag, the records of the
\* DIA placed on the workers in any way
InitCall ==
    /\ run \in {"PageRank", "PageRankJoin", "PageRankJoinSelf"}
    /\ num_workers \in 1..MaxWorkers
    /\ \E n \in 1..MaxCallPages :
           /\ num_pages = IF run = "PageRankJoinSelf" THEN 0 ELSE n
           /\ links \in IF run = "PageRank" THEN GeneratedLinks(n)
                        ELSE JoinLinks(n)
    /\ UseLocationDetection \in IF run = "PageRank" THEN {TRUE} ELSE BOOLEAN
    /\ links_place \in IF run = "PageRank" THEN {<<>>}
                       ELSE [1..Len(links) -> 0..(num_workers - 1)]
    /\ consume_counter = KeepForever(NoNodes, "links")
    /\ pc = "pagerank"
    /\ input = <<>>
    /\ number_edges = 0
    /\ ranks = <<>>
    /\ ranks_place = <<>>
    /\ outs_rank = <<>>
    /\ contribs = <<>>
    /\ iter = 0
    /\ iterations = 0
    /\ output = NotWritten
    /\ error = "none"
    /\ line = <<>>
    /\ parsed = NotParsed
    /\ InitWorkers

NextCall == NextPageRank \/ NextJoin

SpecCall == InitCall /\ [][NextCall]_vars

\* the text lines of the model: the characters a line of the input file is
\* made of here
Chars == {"0", "1", "9", " ", "\t", "-", "+", "x"}

Lines == UNION {[1..k -> Chars] : k \in 0..MaxLineLen}

\* ReadLines(ctx, input_path).Map(PageRankLineParser()) on one line
ParseLine ==
    /\ run = "PageRankLineParser" /\ pc = "parse"
    /\ parsed' = PageRankLineParser(line)
    /\ IF parsed'.state = "died"
       THEN Abort("CouldNotParse")
       ELSE pc' = "done" /\ UNCHANGED error
    /\ UNCHANGED <<worker, logs, run, input, num_pages, number_edges, links, ranks, outs_rank,
                   contribs, iter, iterations, output, consume_counter,
                   num_workers, links_place, ranks_place, UseLocationDetection,
                   line>>

InitParse ==
    /\ run = "PageRankLineParser"
    /\ line \in Lines
    /\ parsed = NotParsed
    /\ pc = "parse"
    /\ UseLocationDetection = TRUE
    /\ num_workers = 1
    /\ num_pages = 0
    /\ links = <<>>
    /\ links_place = <<>>
    /\ consume_counter = NoNodes
    /\ input = <<>>
    /\ number_edges = 0
    /\ ranks = <<>>
    /\ ranks_place = <<>>
    /\ outs_rank = <<>>
    /\ contribs = <<>>
    /\ iter = 0
    /\ iterations = 0
    /\ output = NotWritten
    /\ error = "none"
    /\ InitWorkers

NextParse == ParseLine

SpecParse == InitParse /\ [][NextParse]_vars

-----------------------------------------------------------------------------
(* Scenario A: the file run on the edges 0->1, 1->2, 2->0, 3->0 *)

ScenarioAEdges ==
    {PagePageLink(0, 1), PagePageLink(1, 2), PagePageLink(2, 0),
     PagePageLink(3, 0)}

\* the input file holds the four edge lines in any order
InitScenarioA ==
    /\ run = "RunPageRankEdgePerLine"
    /\ num_workers \in 1..MaxWorkers
    /\ input \in {s \in [1..4 -> ScenarioAEdges] : Range(s) = ScenarioAEdges}
    /\ pc = "start"
    /\ num_pages = 0
    /\ number_edges = 0
    /\ links = <<>>
    /\ ranks = <<>>
    /\ outs_rank = <<>>
    /\ contribs = <<>>
    /\ iter = 0
    /\ iterations = 0
    /\ output = NotWritten
    /\ consume_counter = [NoNodes EXCEPT !.input = 1]
    /\ error = "none"
    /\ links_place = <<>>
    /\ ranks_place = <<>>
    /\ UseLocationDetection = TRUE
    /\ line = <<>>
    /\ parsed = NotParsed
    /\ InitWorkers

SpecScenarioA == InitScenarioA /\ [][NextEdgePerLine]_vars

-----------------------------------------------------------------------------
(* Notions the claims are stated in *)

\* the ranks held by the rank DIA
RankValues == IF run \in IndexRuns THEN ranks ELSE Seconds(ranks)

\* the pages that have a record in the rank DIA
RankedPages ==
    IF run \in IndexRuns THEN Pages(Len(ranks))
    ELSE {First(ranks[i]) : i \in 1..Len(ranks)}

\* the rank the rank DIA holds for page p, which has a record
RankOf(p) ==
    IF run \in IndexRuns THEN ranks[p + 1]
    ELSE Second(ranks[CHOOSE i \in 1..Len(ranks) : First(ranks[i]) = p])

\* the outgoing links of page q in the adjacency DIA, none without a record
LinksOf(q) ==
    IF run \in IndexRuns
    THEN IF q < Len(links) THEN links[q + 1] ELSE <<>>
    ELSE IF \E i \in 1..Len(links) : First(links[i]) = q
         THEN Second(links[CHOOSE i \in 1..Len(links) : First(links[i]) = q])
         ELSE <<>>

\* the pages of the graph: [0, num_pages) where the run has num_pages, and the
\* pages that occur in the adjacency DIA in the self-join run
GraphPages ==
    IF run \in JoinSelfRuns
    THEN {First(links[i]) : i \in 1..Len(links)}
         \cup UNION {Range(Second(links[i])) : i \in 1..Len(links)}
    ELSE Pages(num_pages)

EveryPageLinksOut == \A q \in GraphPages : Len(LinksOf(q)) > 0

\* an iteration has completed: the rank DIA is that of iteration iter
AfterIteration == pc = "loop" /\ iter >= 1

-----------------------------------------------------------------------------
(* C1 *)

\* C1: mass conservation.  In every run shape, on a graph in which every page
\* has at least one outgoing link, the ranks held by the rank DIA after each
\* iteration sum to 1.
C1_MassConservation ==
    (AfterIteration /\ GraphPages # {} /\ EveryPageLinksOut)
        => RSum(RankValues) = ROne

-----------------------------------------------------------------------------
(* C2 *)

\* the rank DIA after k iterations of the running join algorithm on the given
\* adjacency DIA and placement, were its InnerJoin run with the given flag
RECURSIVE RanksUnder(_, _)
RanksUnder(flag, k) ==
    IF k = 0
    THEN IF run \in JoinSelfRuns THEN JoinSelfInitRanks(links)
         ELSE JoinInitRanks(num_pages)
    ELSE LET prev == RanksUnder(flag, k - 1)
             place ==
                 IF k > 1
                 THEN [i \in 1..Len(prev) |->
                          HashWorker(First(prev[i]), num_workers)]
                 ELSE IF run \in JoinSelfRuns THEN links_place
                 ELSE [i \in 1..num_pages |->
                          RangeWorker(i - 1, num_pages, num_workers)]
             c == JoinFlatMapContribs(
                      JoinOutsRank(flag, links, links_place, prev, place,
                                   num_workers))
         IN  IF run \in JoinSelfRuns THEN JoinSelfReduceRanks(c)
             ELSE JoinReduceRanks(c, num_pages)

\* C2: location detection does not change results.  In every iteration of the
\* join algorithms, for every number of workers and every placement of the
\* adjacency records, the InnerJoin output is the same multiset of records as
\* with the opposite UseLocationDetection flag, and the rank DIA after every
\* iteration (so the final one) is the one the opposite flag gives.
C2_LocationDetectionSameResult ==
    (run \in {"PageRankJoin", "PageRankJoinSelf"})
        => /\ pc = "flatmap"
                  => BagOf(outs_rank)
                         = BagOf(JoinOutsRank(~UseLocationDetection, links,
                                     links_place, ranks, ranks_place,
                                     num_workers))
           /\ pc \in {"loop", "done"}
                  => ranks = RanksUnder(~UseLocationDetection, iter)

\* the join ran locally with detection on, over records on several workers,
\* where the shuffle would have moved a record, and had output
C2_Witness ==
    /\ run \in {"PageRankJoin", "PageRankJoinSelf"}
    /\ pc = "flatmap"
    /\ UseLocationDetection
    /\ CoPartitioned(Firsts(links), links_place, Firsts(ranks), ranks_place)
    /\ \E i, j \in 1..Len(links) : links_place[i] # links_place[j]
    /\ \E i \in 1..Len(links) :
           links_place[i] # HashWorker(First(links[i]), num_workers)
    /\ Len(outs_rank) >= 2

-----------------------------------------------------------------------------
(* C3 *)

\* the adjacency DIA of the join run in the form the index run is given:
\* slot i holds the outgoing links of page i
IndexLinks == [i \in 1..num_pages |-> LinksOf(i - 1)]

\* C3: the join-based shape agrees with the index-based shape.  After the same
\* number of iterations on the same graph over [0, num_pages), PageRankJoin
\* holds for every page the rank that PageRank holds for it.
C3_JoinAgreesWithIndex ==
    (run = "RunPageRankJoinGenerated" /\ pc = "loop")
        => \A p \in Pages(num_pages) :
               /\ p \in RankedPages
               /\ RankOf(p) = PageRank(IndexLinks, num_pages, iter)[p + 1]

-----------------------------------------------------------------------------
(* C4 *)

\* the pages that received a contribution record in the last iteration
Contributed ==
    IF run \in IndexRuns THEN {contribs[i].page : i \in 1..Len(contribs)}
    ELSE {First(contribs[i]) : i \in 1..Len(contribs)}

\* C4: pages without incoming contributions still get a rank.  After every
\* iteration of PageRank and of PageRankJoin the rank DIA has exactly one
\* record per page of [0, num_pages), and a page that received no contribution
\* record has rank (1 - d) / num_pages.
C4_RankForEveryPage ==
    (AfterIteration /\ run \in IndexRuns \cup {"RunPageRankJoinGenerated"})
        => /\ Len(ranks) = num_pages
           /\ RankedPages = Pages(num_pages)
           /\ \A p \in Pages(num_pages) \ Contributed :
                  /\ p \in RankedPages
                  /\ RankOf(p) = RDivInt(RSub(ROne, dampening), num_pages)

-----------------------------------------------------------------------------
(* C5 *)

Occurrences(p, targets) ==
    Cardinality({i \in 1..Len(targets) : targets[i] = p})

\* the raw incoming total of page p from the current ranks: over the pages q
\* that hold a rank record and link to p, rank(q) / outdegree(q) once per
\* occurrence of p in q's link list
RawTotal(p) ==
    LET linkers == Ascending({q \in RankedPages : Occurrences(p, LinksOf(q)) > 0})
    IN  RSum([j \in 1..Len(linkers) |->
                 RMul(<<Occurrences(p, LinksOf(linkers[j])), 1>>,
                      RDivInt(RankOf(linkers[j]), Len(LinksOf(linkers[j]))))])

\* the reduce stage of an iteration takes place in this step
ReduceStep == pc = "reduce" /\ pc' = "loop"

-----------------------------------------------------------------------------
(* C6 *)

\* C6 as claimed: in Scenario A one iteration of the index-based PageRank
\* gives page 3 the rank 0.0375 and each of the pages 0, 1 and 2 the rank
\* 0.85 * (1/4) + 0.0375.
C6_ScenarioAAsClaimed ==
    (pc = "loop" /\ iter = 1)
        => /\ ranks[4] = RNorm(375, 10000)
           /\ \A i \in 1..3 :
                  ranks[i] = RAdd(RMul(<<17, 20>>, <<1, 4>>), RNorm(375, 10000))

\* C6 as amended: page 3 gets 0.0375, the pages 1 and 2 get
\* 0.85 * (1/4) + 0.0375 each, and page 0, which the pages 2 and 3 both link
\* to, gets 0.85 * (2/4) + 0.0375.
C6_ScenarioA ==
    (pc = "loop" /\ iter = 1)
        => /\ Len(ranks) = 4
           /\ ranks[4] = RNorm(375, 10000)
           /\ ranks[2] = RAdd(RMul(<<17, 20>>, <<1, 4>>), RNorm(375, 10000))
           /\ ranks[3] = RAdd(RMul(<<17, 20>>, <<1, 4>>), RNorm(375, 10000))
           /\ ranks[1] = RAdd(RMul(<<17, 20>>, <<2, 4>>), RNorm(375, 10000))

\* the first iteration on the Scenario A graph has completed
C6_Witness ==
    /\ pc = "loop" /\ iter = 1
    /\ num_pages = 4
    /\ links = <<<<1>>, <<2>>, <<0>>, <<0>>>>

-----------------------------------------------------------------------------
(* C7 *)

\* C7: zero iterations return Init unchanged.  With iterations = 0 each variant
\* returns a rank DIA that holds exactly one record for every page of the
\* graph, with rank 1 / num_pages (1.0 in PageRankJoinSelf).
C7_ZeroIterationsInit ==
    (pc = "output" /\ iterations = 0)
        => IF run \in IndexRuns
           THEN ranks = [i \in 1..num_pages |-> RDivInt(ROne, num_pages)]
           ELSE /\ Len(ranks) = Cardinality(GraphPages)
                /\ Range(ranks) =
                       {<<p, IF run \in JoinSelfRuns THEN ROne
                             ELSE RDivInt(ROne, num_pages)>> : p \in GraphPages}

-----------------------------------------------------------------------------
(* C8 *)

\* the page and the rank of record i of the final rank DIA
FinalPage(i) == IF run \in IndexRuns THEN i - 1 ELSE First(ranks[i])

FinalRank(i) == IF run \in IndexRuns THEN ranks[i] ELSE Second(ranks[i])

\* C8: output lines.  Whenever the output path is non-empty, each run writes
\* one line "<PageId>: <Rank>" per record of the final rank DIA; its integer
\* field is the page's id (the index i in the index-based runs) and its decimal
\* field is that page's final rank as the run prints it.
C8_OutputLines ==
    output.written
        => /\ Len(output.lines) = Len(ranks)
           /\ \A i \in 1..Len(ranks) :
                  /\ output.lines[i].id = FinalPage(i)
                  /\ output.lines[i].rank =
                         IF run = "RunPageRankGenerated"
                         THEN FormatF(FinalRank(i))
                         ELSE FormatG(FinalRank(i))

-----------------------------------------------------------------------------
(* C9 *)

\* the line is two runs of decimal digits separated by a single space
WellFormed(s) ==
    \E k \in 2..(Len(s) - 1) :
        /\ s[k] = " "
        /\ \A i \in 1..Len(s) : i # k => IsDigit(s[i])

\* C9: the edge-line parser rejects malformed input.  It returns an Edge only
\* for a line of two decimal integers separated by a single space with nothing
\* trailing, and aborts the run on every other line.
C9_ParserRejectsMalformed ==
    (pc # "parse") => (parsed.state = "edge" <=> WellFormed(line))

-----------------------------------------------------------------------------
(* C10 *)

-----------------------------------------------------------------------------
(* C11 *)

AllWorkersFinished == \A w \in Workers : worker[w].pc = "done"

-----------------------------------------------------------------------------
(* C12 *)

\* the edges PageRankLineParser returns over all lines of at most MaxLineLen
\* characters; the ids reach ULONG_MAX (strtoul of "-1", or of an overflow)
ParsedEdges ==
    {PageRankLineParser(l).edge :
        l \in {t \in Lines : PageRankLineParser(t).state = "edge"}}

\* input = ReadLines(ctx, input_path).Map(PageRankLineParser()): a file of at
\* most MaxEdges lines, each of which the parser accepts
InitKeyRange ==
    /\ run = "RunPageRankEdgePerLine"
    /\ num_workers \in 1..MaxWorkers
    /\ input \in UNION {[1..k -> ParsedEdges] : k \in 0..MaxEdges}
    /\ pc = "start"
    /\ num_pages = 0
    /\ number_edges = 0
    /\ links = <<>>
    /\ ranks = <<>>
    /\ outs_rank = <<>>
    /\ contribs = <<>>
    /\ iter = 0
    /\ iterations = 0
    /\ output = NotWritten
    /\ consume_counter = [NoNodes EXCEPT !.input = 1]
    /\ error = "none"
    /\ links_place = <<>>
    /\ ranks_place = <<>>
    /\ UseLocationDetection = TRUE
    /\ line = <<>>
    /\ parsed = NotParsed
    /\ InitWorkers

SpecKeyRange == InitKeyRange /\ [][NextEdgePerLine]_vars

\* C12: key range in the file-based index run.  Once num_pages is set, it is
\* (the maximum of all src and tgt ids over the parsed edges) + 1, the edge
\* source given to GroupToIndex and the contribution target given to
\* ReduceToIndex lie in [0, num_pages), and no key-range violation is reached.
C12_KeysInRange ==
    (run = "RunPageRankEdgePerLine" /\ pc # "start") =>
        /\ num_pages = Max(MaxIds(input)) + 1
        /\ \A i \in 1..Len(input) : input[i].src < num_pages
        /\ \A i \in 1..Len(contribs) : contribs[i].page < num_pages
        /\ error # "KeyRange"

=============================================================================
